---- MODULE Spec2Model ----
(***************************************************************************)
(* Model of win-term: the two library resolvers of src/lib.rs              *)
(* (get_size_of_the_font, get_size_of_the_terminal) and the entry point of *)
(* src/main.rs.  Each function is a fixed sequence of Win32 calls followed *)
(* by a match on the DPI; every call is one step, so the order in which    *)
(* the OS is queried is visible in the model.                              *)
(*                                                                         *)
(* The OS console state is the record os.  It changes only between calls,  *)
(* once the outcome of the last call has been dropped: the program is      *)
(* single threaded, and while ret holds an outcome, os is the state that   *)
(* call ran against.                                                       *)
(***************************************************************************)
EXTENDS Integers, Sequences, FiniteSets, TLC

VARIABLES
    os,         \* the console state the OS would report
    fn,         \* the function being executed / last executed
    pc,         \* position inside that function, "idle" between calls
    h_console,  \* local h_console: value returned by GetStdHandle
    info,       \* local info.dwSize (COORD X, Y)
    dpi,        \* value last returned by GetDpiForWindow
    calls,      \* the OS calls issued by the current/last call, in order
    ret,        \* what the current/last call returned
    stdout,     \* lines the current/last run of main wrote to stdout
    stderr,     \* lines the current/last run of main wrote to stderr
    memo        \* ghost: one earlier completed call, kept for comparison

vars == <<os, fn, pc, h_console, info, dpi, calls, ret, stdout, stderr, memo>>

(***************************************************************************)
(* Values the OS can report.                                               *)
(***************************************************************************)
\* HANDLE values: 0 is the null handle, -1 is INVALID_HANDLE_VALUE, 7 stands
\* for a real console output handle.
Handles == {0, -1, 7}

\* dwSize is a COORD of two i16 values.
Grids == { <<80, 25>>, <<120, 30>>, <<0, 0>>, <<-1, 1>>, <<1, -1>>,
           <<-32768, -32768>>, <<32767, 32767>> }

\* GetDpiForWindow returns a u32; 0 is what it reports for a null window.
Dpis == {0, 96, 108, 120, 144, 192}

\* The screen-buffer query can only succeed on a real console handle.
OsStates(G, D) ==
    { s \in [handle : Handles, bufOk : BOOLEAN, X : {g[1] : g \in G},
             Y : {g[2] : g \in G}, dpi : D] :
        /\ <<s.X, s.Y>> \in G
        /\ s.bufOk => s.handle = 7 }

AllOs == OsStates(Grids, Dpis)

\* The smaller family used when two calls are compared with each other.
PairGrids == { <<80, 25>>, <<120, 30>> }
PairDpis == {0, 96, 120, 144}
PairOs == OsStates(PairGrids, PairDpis)

Functions == {"get_size_of_the_font", "get_size_of_the_terminal", "main"}

(***************************************************************************)
(* Fixed-width integers.                                                   *)
(***************************************************************************)
\* Two's complement value of n in w bits, for w < 31.
Wrap(w, n) ==
    LET m == n % (2 ^ w)
    IN  IF m >= 2 ^ (w - 1) THEN m - 2 ^ w ELSE m

\* `x as i32` for an i16 x: sign extension of the 16-bit value.
AsI32(x) == Wrap(16, x)

\* The product computed in 16 bits and widened afterwards.
MulNarrow(k, x) == AsI32(Wrap(16, k * Wrap(16, x)))

\* `k * x as i32`: the cast binds tighter than *, so this is an i32 product.
\* The integers of the checker are 32-bit two's complement themselves: a
\* product that left the i32 range would stop the check with an overflow
\* error (as a debug build panics) instead of yielding a value.
Mul(k, x) == k * AsI32(x)

(***************************************************************************)
(* Result values.                                                          *)
(***************************************************************************)
NoRet == [tag |-> "none"]
Unit == [tag |-> "unit"]
Panic == [tag |-> "panic"]
Err(e) == [tag |-> "Err", err |-> e]
OkFont(w, h) == [tag |-> "Ok", ty |-> "FontSize", width |-> w, height |-> h]
OkTerm(w, h) == [tag |-> "Ok", ty |-> "TerminalSize", width |-> w, height |-> h]
ZeroCoord == [X |-> 0, Y |-> 0]

(***************************************************************************)
(* The three DPI matches, each as written in its own function.             *)
(***************************************************************************)
\* A table that interpolates between and beyond its entries.
FontMatchInterpolating(d) ==
    IF d = 0 THEN Err("UnsupportedDpi")
    ELSE IF d < 108 THEN OkFont(9, 20)
    ELSE IF d < 132 THEN OkFont(12, 25)
    ELSE OkFont(14, 32)

\* The 144 entry with another glyph width.
FontMatchWide(d) ==
    CASE d = 96  -> OkFont(9, 20)
      [] d = 120 -> OkFont(12, 25)
      [] d = 144 -> OkFont(15, 32)
      [] OTHER   -> Err("UnsupportedDpi")

FontMatch(d) ==
    CASE d = 96  -> OkFont(9, 20)
      [] d = 120 -> OkFont(12, 25)
      [] d = 144 -> OkFont(14, 32)
      [] OTHER   -> Err("UnsupportedDpi")

\* The 120 arm copied from the 96 arm.
TerminalMatchCopied(d, inf) ==
    CASE d = 96  -> OkTerm(Mul(9, inf.X), Mul(20, inf.Y))
      [] d = 120 -> OkTerm(Mul(9, inf.X), Mul(20, inf.Y))
      [] d = 144 -> OkTerm(Mul(14, inf.X), Mul(32, inf.Y))
      [] OTHER   -> Err("UnsupportedDpi")

TerminalMatch(d, inf) ==
    CASE d = 96  -> OkTerm(Mul(9, inf.X), Mul(20, inf.Y))
      [] d = 120 -> OkTerm(Mul(12, inf.X), Mul(25, inf.Y))
      [] d = 144 -> OkTerm(Mul(14, inf.X), Mul(32, inf.Y))
      [] OTHER   -> Err("UnsupportedDpi")

\* The tuple built with the width first.
MainMatchWidthFirst(d, inf) ==
    CASE d = 96  -> [tag |-> "tuple", t0 |-> Mul(9, inf.X), t1 |-> Mul(20, inf.Y)]
      [] d = 120 -> [tag |-> "tuple", t0 |-> Mul(12, inf.X), t1 |-> Mul(25, inf.Y)]
      [] d = 144 -> [tag |-> "tuple", t0 |-> Mul(14, inf.X), t1 |-> Mul(32, inf.Y)]
      [] OTHER   -> [tag |-> "unimplemented"]

\* The default arm yielding a size instead of aborting.
MainMatchDefaultArm(d, inf) ==
    CASE d = 96  -> [tag |-> "tuple", t0 |-> Mul(20, inf.Y), t1 |-> Mul(9, inf.X)]
      [] d = 120 -> [tag |-> "tuple", t0 |-> Mul(25, inf.Y), t1 |-> Mul(12, inf.X)]
      [] d = 144 -> [tag |-> "tuple", t0 |-> Mul(32, inf.Y), t1 |-> Mul(14, inf.X)]
      [] OTHER   -> [tag |-> "tuple", t0 |-> 0, t1 |-> 0]

\* The 144 arm missing.
MainMatchNo144(d, inf) ==
    CASE d = 96  -> [tag |-> "tuple", t0 |-> Mul(20, inf.Y), t1 |-> Mul(9, inf.X)]
      [] d = 120 -> [tag |-> "tuple", t0 |-> Mul(25, inf.Y), t1 |-> Mul(12, inf.X)]
      [] OTHER   -> [tag |-> "unimplemented"]

\* main builds the tuple (height, width).
MainMatch(d, inf) ==
    CASE d = 96  -> [tag |-> "tuple", t0 |-> Mul(20, inf.Y), t1 |-> Mul(9, inf.X)]
      [] d = 120 -> [tag |-> "tuple", t0 |-> Mul(25, inf.Y), t1 |-> Mul(12, inf.X)]
      [] d = 144 -> [tag |-> "tuple", t0 |-> Mul(32, inf.Y), t1 |-> Mul(14, inf.X)]
      [] OTHER   -> [tag |-> "unimplemented"]

\* println!("size: {} x {}", pixel_size.1, pixel_size.0); t0, t1 are the tuple fields .0, .1
Println(ps) == << "size: ", ps.t1, " x ", ps.t0 >>

HandleMsg == "error get_std_handle"
BufferMsg == "error getting screen buffer info"
PanicMsg == "not implemented: This DPI shouldn't exist"

(***************************************************************************)
(* The OS calls.                                                           *)
(***************************************************************************)
\* The null check left out.
IsNullNever(h) == FALSE

\* h_console.is_null()
IsNull(h) == h = 0

\* GetStdHandle(STD_OUTPUT_HANDLE)
GetStdHandle == os.handle

\* GetConsoleScreenBufferInfo(h, &mut info): nonzero on success
GetConsoleScreenBufferInfo(h) == IF h = 7 /\ os.bufOk THEN 1 ELSE 0

\* what the successful query stores in info.dwSize
FilledInfo == [X |-> os.X, Y |-> os.Y]

\* A DPI remembered from an earlier call once it was nonzero.
GetDpiForWindowCached == IF dpi # 0 THEN dpi ELSE os.dpi

\* GetDpiForWindow(GetConsoleWindow())
GetDpiForWindow == os.dpi

DpiCalls == << "GetConsoleWindow", "GetDpiForWindow" >>

(***************************************************************************)
(* Initial state and environment.                                          *)
(***************************************************************************)
InitIn(S) ==
    /\ os \in S
    /\ fn = "main"
    /\ pc = "idle"
    /\ h_console = 0
    /\ info = ZeroCoord
    /\ dpi = 0
    /\ calls = << >>
    /\ ret = NoRet
    /\ stdout = << >>
    /\ stderr = << >>
    /\ memo = [fn |-> "none"]

Init == InitIn(AllOs)
InitPair == InitIn(PairOs)

\* The console is resized, moved to another monitor, closed, ... between calls.
EnvChangeIn(S) ==
    /\ pc = "idle" /\ ret = NoRet
    /\ \E s \in S : s # os /\ os' = s
    /\ UNCHANGED <<fn, pc, h_console, info, dpi, calls, ret, stdout, stderr, memo>>

EnvChange == EnvChangeIn(AllOs)
EnvChangePair == EnvChangeIn(PairOs)

\* The caller is done with the outcome of the last call; its locals are gone.
Drop ==
    /\ pc = "idle" /\ ret # NoRet
    /\ h_console' = 0
    /\ info' = ZeroCoord
    /\ calls' = << >>
    /\ ret' = NoRet
    /\ stdout' = << >>
    /\ stderr' = << >>
    /\ UNCHANGED <<os, fn, pc, dpi, memo>>

\* A caller (or the shell, for main) starts a call.
Call(f) ==
    /\ pc = "idle" /\ ret = NoRet
    /\ fn' = f
    /\ pc' = "GetStdHandle"
    /\ calls' = << >>
    /\ ret' = NoRet
    /\ stdout' = << >>
    /\ stderr' = << >>
    /\ UNCHANGED <<os, h_console, info, dpi, memo>>

(***************************************************************************)
(* get_size_of_the_font                                                    *)
(***************************************************************************)
Font_GetStdHandle ==
    /\ fn = "get_size_of_the_font" /\ pc = "GetStdHandle"
    /\ h_console' = GetStdHandle
    /\ calls' = Append(calls, "GetStdHandle")
    /\ IF IsNull(h_console')
         THEN pc' = "idle" /\ ret' = Err("NoStdHandle")
         ELSE pc' = "GetDpiForWindow" /\ ret' = ret
    /\ UNCHANGED <<os, fn, info, dpi, stdout, stderr, memo>>

Font_GetDpi ==
    /\ fn = "get_size_of_the_font" /\ pc = "GetDpiForWindow"
    /\ dpi' = GetDpiForWindow
    /\ calls' = calls \o DpiCalls
    /\ ret' = FontMatch(dpi')
    /\ pc' = "idle"
    /\ UNCHANGED <<os, fn, h_console, info, stdout, stderr, memo>>

(***************************************************************************)
(* get_size_of_the_terminal                                                *)
(***************************************************************************)
Term_GetStdHandle ==
    /\ fn = "get_size_of_the_terminal" /\ pc = "GetStdHandle"
    /\ h_console' = GetStdHandle
    /\ calls' = Append(calls, "GetStdHandle")
    /\ IF IsNull(h_console')
         THEN pc' = "idle" /\ ret' = Err("NoStdHandle") /\ info' = info
         ELSE pc' = "GetConsoleScreenBufferInfo" /\ ret' = ret /\ info' = ZeroCoord
    /\ UNCHANGED <<os, fn, dpi, stdout, stderr, memo>>

Term_GetBufferInfo ==
    /\ fn = "get_size_of_the_terminal" /\ pc = "GetConsoleScreenBufferInfo"
    /\ calls' = Append(calls, "GetConsoleScreenBufferInfo")
    /\ IF GetConsoleScreenBufferInfo(h_console) = 0
         THEN pc' = "idle" /\ ret' = Err("NoScreenBufferInfo") /\ info' = info
         ELSE pc' = "GetDpiForWindow" /\ ret' = ret /\ info' = FilledInfo
    /\ UNCHANGED <<os, fn, h_console, dpi, stdout, stderr, memo>>

Term_GetDpi ==
    /\ fn = "get_size_of_the_terminal" /\ pc = "GetDpiForWindow"
    /\ dpi' = GetDpiForWindow
    /\ calls' = calls \o DpiCalls
    /\ ret' = TerminalMatch(dpi', info)
    /\ pc' = "idle"
    /\ UNCHANGED <<os, fn, h_console, info, stdout, stderr, memo>>

(***************************************************************************)
(* main                                                                    *)
(***************************************************************************)
Main_GetStdHandle ==
    /\ fn = "main" /\ pc = "GetStdHandle"
    /\ h_console' = GetStdHandle
    /\ calls' = Append(calls, "GetStdHandle")
    /\ IF IsNull(h_console')
         THEN /\ pc' = "idle" /\ ret' = Unit /\ info' = info
              /\ stderr' = Append(stderr, HandleMsg)
         ELSE /\ pc' = "GetConsoleScreenBufferInfo" /\ ret' = ret /\ info' = ZeroCoord
              /\ stderr' = stderr
    /\ UNCHANGED <<os, fn, dpi, stdout, memo>>

Main_GetBufferInfo ==
    /\ fn = "main" /\ pc = "GetConsoleScreenBufferInfo"
    /\ calls' = Append(calls, "GetConsoleScreenBufferInfo")
    /\ IF GetConsoleScreenBufferInfo(h_console) = 0
         THEN /\ pc' = "idle" /\ ret' = Unit /\ info' = info
              /\ stderr' = Append(stderr, BufferMsg)
         ELSE /\ pc' = "GetDpiForWindow" /\ ret' = ret /\ info' = FilledInfo
              /\ stderr' = stderr
    /\ UNCHANGED <<os, fn, h_console, dpi, stdout, memo>>

Main_GetDpi ==
    /\ fn = "main" /\ pc = "GetDpiForWindow"
    /\ dpi' = GetDpiForWindow
    /\ calls' = calls \o DpiCalls
    /\ LET pixel_size == MainMatch(dpi', info)
       IN  IF pixel_size.tag = "unimplemented"
             THEN /\ ret' = Panic
                  /\ stderr' = Append(stderr, PanicMsg)
                  /\ stdout' = stdout
             ELSE /\ ret' = Unit
                  /\ stdout' = Append(stdout, Println(pixel_size))
                  /\ stderr' = stderr
    /\ pc' = "idle"
    /\ UNCHANGED <<os, fn, h_console, info, memo>>

(***************************************************************************)
(* Ghost: the outcome of a completed call is kept for comparison with      *)
(* later calls at the moment the caller drops it.                          *)
(***************************************************************************)
Outcome == [fn |-> fn, os |-> os, ret |-> ret, stdout |-> stdout, stderr |-> stderr]

Remember ==
    /\ pc = "idle" /\ ret # NoRet
    /\ memo' = Outcome
    /\ h_console' = 0
    /\ info' = ZeroCoord
    /\ calls' = << >>
    /\ ret' = NoRet
    /\ stdout' = << >>
    /\ stderr' = << >>
    /\ UNCHANGED <<os, fn, pc, dpi>>

Steps ==
    \/ Font_GetStdHandle
    \/ Font_GetDpi
    \/ Term_GetStdHandle
    \/ Term_GetBufferInfo
    \/ Term_GetDpi
    \/ Main_GetStdHandle
    \/ Main_GetBufferInfo
    \/ Main_GetDpi

Next ==
    \/ EnvChange
    \/ Drop
    \/ \E f \in Functions : Call(f)
    \/ Steps

NextPair ==
    \/ EnvChangePair
    \/ Drop
    \/ \E f \in Functions : Call(f)
    \/ Steps
    \/ Remember

Spec == Init /\ [][Next]_vars
SpecPair == InitPair /\ [][NextPair]_vars

\* A call has completed and its outcome is in ret.
Done(f) == fn = f /\ pc = "idle" /\ ret # NoRet

Supported == {96, 120, 144}

\* The per-character pixel size of the documented table.
PerCharWidth(d) == CASE d = 96 -> 9 [] d = 120 -> 12 [] d = 144 -> 14
PerCharHeight(d) == CASE d = 96 -> 20 [] d = 120 -> 25 [] d = 144 -> 32

\* The screen-buffer query succeeds on the OS state the call ran against.
BufferOk == GetConsoleScreenBufferInfo(os.handle) # 0

TypeOK ==
    /\ os \in AllOs
    /\ fn \in Functions
    /\ pc \in {"idle", "GetStdHandle", "GetConsoleScreenBufferInfo", "GetDpiForWindow"}
    /\ h_console \in Handles
    /\ dpi \in Dpis

(***************************************************************************)
(* C1: with a non-null handle get_size_of_the_font returns (9,20) at DPI   *)
(* 96, (12,25) at 120, (14,32) at 144 and UnsupportedDpi at every other    *)
(* DPI, without interpolating.                                             *)
(***************************************************************************)
C1_FontTable ==
    (Done("get_size_of_the_font") /\ os.handle # 0) =>
        /\ os.dpi = 96 => ret = OkFont(9, 20)
        /\ os.dpi = 120 => ret = OkFont(12, 25)
        /\ os.dpi = 144 => ret = OkFont(14, 32)
        /\ os.dpi \notin Supported => ret = Err("UnsupportedDpi")

C1_Witness ==
    /\ Done("get_size_of_the_font") /\ os.handle = 7
    /\ os.dpi = 108 /\ ret = Err("UnsupportedDpi")

(***************************************************************************)
(* C2: when the screen-buffer query reports a grid and the DPI is          *)
(* supported, get_size_of_the_terminal returns Ok with                     *)
(* width = cellCols * perCharWidth and height = cellRows * perCharHeight;  *)
(* 80x25 at 96 gives (720, 500) and 120x30 at 120 gives (1440, 750).       *)
(***************************************************************************)
C2_TerminalProduct ==
    (Done("get_size_of_the_terminal") /\ BufferOk /\ os.dpi \in Supported) =>
        /\ ret = OkTerm(os.X * PerCharWidth(os.dpi), os.Y * PerCharHeight(os.dpi))
        /\ (os.X = 80 /\ os.Y = 25 /\ os.dpi = 96) => ret = OkTerm(720, 500)
        /\ (os.X = 120 /\ os.Y = 30 /\ os.dpi = 120) => ret = OkTerm(1440, 750)

C2_Witness ==
    /\ Done("get_size_of_the_terminal")
    /\ os.X = 120 /\ os.Y = 30 /\ os.dpi = 120
    /\ ret = OkTerm(1440, 750)

(***************************************************************************)
(* C3: a null or invalid standard output handle makes both resolvers       *)
(* return NoStdHandle, with GetStdHandle the only OS call issued.          *)
(***************************************************************************)
C3_NullOrInvalidHandle ==
    \A f \in {"get_size_of_the_font", "get_size_of_the_terminal"} :
        (Done(f) /\ os.handle \in {0, -1}) =>
            /\ ret = Err("NoStdHandle")
            /\ calls = << "GetStdHandle" >>

(***************************************************************************)
(* C4: get_size_of_the_terminal tests NoStdHandle, NoScreenBufferInfo,     *)
(* UnsupportedDpi in that order: NoScreenBufferInfo is returned only after *)
(* the null check passed, and always when it passed and the buffer query   *)
(* failed, whatever the DPI; the DPI is queried only after both passed.    *)
(***************************************************************************)
C4_ErrorOrder ==
    fn = "get_size_of_the_terminal" =>
        /\ "GetDpiForWindow" \in {calls[i] : i \in 1..Len(calls)} =>
               os.handle # 0 /\ BufferOk
        /\ "GetConsoleScreenBufferInfo" \in {calls[i] : i \in 1..Len(calls)} =>
               os.handle # 0
        /\ Done(fn) =>
            /\ ret = Err("NoStdHandle") => calls = << "GetStdHandle" >>
            /\ ret = Err("NoScreenBufferInfo") =>
                 /\ os.handle # 0
                 /\ calls = << "GetStdHandle", "GetConsoleScreenBufferInfo" >>
            /\ (os.handle # 0 /\ ~BufferOk) => ret = Err("NoScreenBufferInfo")
            /\ ret = Err("UnsupportedDpi") =>
                 calls = << "GetStdHandle", "GetConsoleScreenBufferInfo",
                            "GetConsoleWindow", "GetDpiForWindow" >>

C4_Witness ==
    /\ Done("get_size_of_the_terminal")
    /\ os.handle = 7 /\ ~os.bufOk /\ os.dpi = 96
    /\ ret = Err("NoScreenBufferInfo")

(***************************************************************************)
(* C5: on success main prints exactly one line "size: W x H" with          *)
(* W = cellCols * perCharWidth first and H = cellRows * perCharHeight      *)
(* second.                                                                 *)
(***************************************************************************)
C5_MainLine ==
    Done("main") =>
        /\ (BufferOk /\ os.dpi \in Supported) =>
              stdout = << << "size: ", os.X * PerCharWidth(os.dpi),
                             " x ", os.Y * PerCharHeight(os.dpi) >> >>
        /\ stdout # << >> => (BufferOk /\ os.dpi \in Supported)

C5_Witness ==
    /\ Done("main")
    /\ os.X = 80 /\ os.Y = 25 /\ os.dpi = 96
    /\ stdout = << << "size: ", 720, " x ", 500 >> >>

(***************************************************************************)
(* C6: in main a failed handle retrieval or buffer query gives one         *)
(* diagnostic on stderr, a normal return and no size line; an unsupported  *)
(* DPI gives a panic and no size line; the size line is printed at most    *)
(* once and only when all three checks passed.                             *)
(***************************************************************************)
C6_MainFailures ==
    fn = "main" =>
        /\ Len(stdout) <= 1
        /\ stdout # << >> =>
              /\ os.handle # 0 /\ BufferOk /\ os.dpi \in Supported
              /\ ret = Unit /\ stderr = << >>
        /\ Done("main") =>
            /\ os.handle = 0 =>
                  ret = Unit /\ stderr = << HandleMsg >> /\ stdout = << >>
            /\ (os.handle # 0 /\ ~BufferOk) =>
                  ret = Unit /\ stderr = << BufferMsg >> /\ stdout = << >>
            /\ (BufferOk /\ os.dpi \notin Supported) =>
                  ret = Panic /\ stdout = << >>

C6_Witness ==
    /\ Done("main") /\ BufferOk /\ os.dpi = 192
    /\ ret = Panic /\ stdout = << >>

(***************************************************************************)
(* C7: on the same OS state main and get_size_of_the_terminal agree: the   *)
(* size line is printed iff the resolver returns Ok, with the same width   *)
(* and height, and the handle message, the buffer message and the abort    *)
(* correspond to NoStdHandle, NoScreenBufferInfo and UnsupportedDpi.       *)
(***************************************************************************)
MainAgrees(out, err, r, t) ==
    /\ out # << >> <=> t.tag = "Ok"
    /\ t.tag = "Ok" => out = << << "size: ", t.width, " x ", t.height >> >>
    /\ err = << HandleMsg >> <=> t = Err("NoStdHandle")
    /\ err = << BufferMsg >> <=> t = Err("NoScreenBufferInfo")
    /\ r = Panic <=> t = Err("UnsupportedDpi")
    /\ r = Unit <=> t # Err("UnsupportedDpi")

C7_MainRefinesTerminal ==
    /\ (Done("main") /\ memo.fn = "get_size_of_the_terminal" /\ memo.os = os) =>
          MainAgrees(stdout, stderr, ret, memo.ret)
    /\ (Done("get_size_of_the_terminal") /\ memo.fn = "main" /\ memo.os = os) =>
          MainAgrees(memo.stdout, memo.stderr, memo.ret, ret)

C7_Witness ==
    /\ Done("main") /\ memo.fn = "get_size_of_the_terminal" /\ memo.os = os
    /\ os.dpi = 144 /\ memo.ret.tag = "Ok"
    /\ stdout = << << "size: ", memo.ret.width, " x ", memo.ret.height >> >>

(***************************************************************************)
(* C8: the two resolvers use the same table: where the terminal resolver   *)
(* returns Ok(t) the font resolver returns Ok(f) with                      *)
(* t.width = cellCols * f.width and t.height = cellRows * f.height; they   *)
(* reject the same DPI values; the font resolver never issues the buffer   *)
(* query and never returns NoScreenBufferInfo.                             *)
(***************************************************************************)
SameTable(f, t) ==
    /\ t.tag = "Ok" =>
          /\ f.tag = "Ok"
          /\ t.width = os.X * f.width
          /\ t.height = os.Y * f.height
    /\ t = Err("UnsupportedDpi") => f = Err("UnsupportedDpi")
    /\ (f = Err("UnsupportedDpi") /\ BufferOk) => t = Err("UnsupportedDpi")
    /\ f = Err("NoStdHandle") <=> t = Err("NoStdHandle")

C8_SameTable ==
    /\ (Done("get_size_of_the_font") /\ memo.fn = "get_size_of_the_terminal"
            /\ memo.os = os) => SameTable(ret, memo.ret)
    /\ (Done("get_size_of_the_terminal") /\ memo.fn = "get_size_of_the_font"
            /\ memo.os = os) => SameTable(memo.ret, ret)
    /\ fn = "get_size_of_the_font" =>
          /\ "GetConsoleScreenBufferInfo" \notin {calls[i] : i \in 1..Len(calls)}
          /\ ret # Err("NoScreenBufferInfo")

C8_Witness ==
    /\ Done("get_size_of_the_font") /\ memo.fn = "get_size_of_the_terminal"
    /\ memo.os = os /\ os.handle = 7 /\ ~os.bufOk
    /\ memo.ret = Err("NoScreenBufferInfo") /\ ret = OkFont(14, 32)

(***************************************************************************)
(* C9: calls are stateless and deterministic: a call made against the same *)
(* OS state as an earlier call of the same function, after any calls in    *)
(* between, has the same outcome.                                          *)
(***************************************************************************)
C9_Deterministic ==
    (pc = "idle" /\ ret # NoRet /\ memo.fn = fn /\ memo.os = os) =>
        /\ ret = memo.ret
        /\ stdout = memo.stdout
        /\ stderr = memo.stderr

C9_Witness ==
    /\ Done("get_size_of_the_terminal") /\ memo.fn = fn /\ memo.os = os
    /\ os.dpi = 0 /\ BufferOk
    /\ ret = Err("UnsupportedDpi")

(***************************************************************************)
(* C10: the products never leave the i32 range and equal the exact         *)
(* products, so a returned or printed width (height) is non-negative       *)
(* exactly when cellCols (cellRows) is, and 0 exactly when it is 0.        *)
(***************************************************************************)
ExactProduct(w, h) ==
    /\ w = os.X * PerCharWidth(os.dpi) /\ h = os.Y * PerCharHeight(os.dpi)
    /\ w >= -(32 * 32768) /\ w <= 32 * 32767
    /\ h >= -(32 * 32768) /\ h <= 32 * 32767
    /\ w >= 0 <=> os.X >= 0
    /\ h >= 0 <=> os.Y >= 0
    /\ w = 0 <=> os.X = 0
    /\ h = 0 <=> os.Y = 0

C10_NoOverflow ==
    /\ (Done("get_size_of_the_terminal") /\ ret.tag = "Ok") =>
          ExactProduct(ret.width, ret.height)
    /\ (Done("main") /\ stdout # << >>) =>
          ExactProduct(stdout[1][2], stdout[1][4])

C10_Witness ==
    /\ Done("get_size_of_the_terminal")
    /\ os.X = -32768 /\ os.Y = -32768 /\ os.dpi = 144
    /\ ret = OkTerm(-458752, -1048576)
====
